---- MODULE Spec2Model ----
(***************************************************************************)
(* AWorld-Runtime: the action-collection framework                         *)
(* (aworld_runtime/gaia/services): workspace resolution, action            *)
(* registration, file-path validation, the ActionResponse envelope, and    *)
(* the download and Excel-extraction actions, over a small POSIX file      *)
(* system.                                                                 *)
(*                                                                         *)
(* Text (paths as the caller writes them, attribute names, extensions) is  *)
(* a TLA+ string and is taken apart character by character with Len,      *)
(* SubSeq and \o.  A resolved absolute path is the tuple of its segments:  *)
(* << >> is "/", <<"h", "w">> is "/h/w".                                   *)
(***************************************************************************)
EXTENDS Integers, Sequences, FiniteSets, TLC

VARIABLES fs, env, coll, call, loop

vars == <<fs, env, coll, call, loop>>

(***************************************************************************)
(* Bounds of the model.                                                    *)
(***************************************************************************)
\* longest output_path text given to mcp_download_file in SpecPath
MaxPathLen == 5
\* longest file_path text given to _validate_file_path in SpecValidate
MaxFileLen == 4
\* longest explicit workspace text given to a constructor in SpecWs
MaxWsLen == 4
\* most chunks a response body is delivered in
MaxChunks == 2
\* most action calls made on one collection
MaxCalls == 2
\* most invocations scheduled on one event loop
MaxTasks == 2
\* the byte ceiling of a download, 1 GiB in the source, scaled to a size that
\* a body of MaxChunks chunks exceeds
max_file_size == 2

(***************************************************************************)
(* Strings.                                                                *)
(***************************************************************************)
Char(s, i) == SubSeq(s, i, i)

RECURSIVE Strs(_, _)
\* every string over `alphabet` of at most n characters
Strs(alphabet, n) ==
    IF n = 0 THEN {""}
    ELSE LET shorter == Strs(alphabet, n - 1)
         IN  shorter \cup {s \o c : s \in shorter, c \in alphabet}

StartsWith(s, prefix) ==
    /\ Len(s) >= Len(prefix)
    /\ SubSeq(s, 1, Len(prefix)) = prefix

RECURSIVE LStrip(_, _)
\* str.lstrip(chars): drop the leading characters that are in `chars`
LStrip(s, chars) ==
    IF Len(s) > 0 /\ Char(s, 1) \in chars
    THEN LStrip(SubSeq(s, 2, Len(s)), chars)
    ELSE s

UpperLetters == "ABCDEFGHIJKLMNOPQRSTUVWXYZ"
LowerLetters == "abcdefghijklmnopqrstuvwxyz"

LowerChar(c) ==
    IF \E i \in 1..Len(UpperLetters) : Char(UpperLetters, i) = c
    THEN LET i == CHOOSE i \in 1..Len(UpperLetters) : Char(UpperLetters, i) = c
         IN  Char(LowerLetters, i)
    ELSE c

RECURSIVE Lower(_)
\* str.lower() on ASCII text
Lower(s) == IF Len(s) = 0 THEN "" ELSE LowerChar(Char(s, 1)) \o Lower(SubSeq(s, 2, Len(s)))

\* str.rfind("."): the 1-based place of the last dot, 0 when there is none
RFindDot(s) ==
    LET dots == {i \in 1..Len(s) : Char(s, i) = "."}
    IN  IF dots = {} THEN 0 ELSE CHOOSE i \in dots : \A j \in dots : j <= i

RECURSIVE SplitFrom(_, _, _, _)
SplitFrom(s, i, done, cur) ==
    IF i > Len(s) THEN Append(done, cur)
    ELSE IF Char(s, i) = "/" THEN SplitFrom(s, i + 1, Append(done, cur), "")
    ELSE SplitFrom(s, i + 1, done, cur \o Char(s, i))

\* s.split("/")
Split(s) == SplitFrom(s, 1, << >>, "")

(***************************************************************************)
(* pathlib: a PurePosixPath is [abs, parts]; "." and empty segments are    *)
(* dropped when it is built, ".." is kept.                                 *)
(***************************************************************************)
IsAbs(s) == Len(s) > 0 /\ Char(s, 1) = "/"

KeptSegment(g) == g # "" /\ g # "."

PurePath(s) == [abs |-> IsAbs(s), parts |-> SelectSeq(Split(s), KeptSegment)]

AbsPath(parts) == [abs |-> TRUE, parts |-> parts]

\* base / other
JoinPath(base, other) ==
    IF other.abs THEN other
    ELSE [abs |-> base.abs, parts |-> base.parts \o other.parts]

\* PurePath.name
PathName(p) == IF Len(p.parts) = 0 THEN "" ELSE p.parts[Len(p.parts)]

\* PurePath.suffix of a file name
NameSuffix(name) ==
    LET i == RFindDot(name)
    IN  IF 1 < i /\ i < Len(name) THEN SubSeq(name, i, Len(name)) ELSE ""

PathSuffix(p) == NameSuffix(PathName(p))

Parent(parts) == IF Len(parts) = 0 THEN parts ELSE SubSeq(parts, 1, Len(parts) - 1)

IsPrefix(a, b) == Len(a) <= Len(b) /\ SubSeq(b, 1, Len(a)) = a

\* a in b.parents
InParents(a, b) == Len(a) < Len(b) /\ IsPrefix(a, b)

(***************************************************************************)
(* The file system: a function from the absolute paths that exist to       *)
(* their nodes.                                                            *)
(***************************************************************************)
\* x: whether the directory may be searched (its mode grants execute)
DirNode == [t |-> "dir", x |-> TRUE, data |-> << >>, to |-> << >>]
LockedDirNode == [t |-> "dir", x |-> FALSE, data |-> << >>, to |-> << >>]
FileNode(data) == [t |-> "file", x |-> TRUE, data |-> data, to |-> << >>]
LinkNode(to) == [t |-> "link", x |-> TRUE, data |-> << >>, to |-> to]

HOME == <<"h">>
CWD == <<"c">>
WS == <<"h", "w">>
OUTSIDE == <<"e">>

IsDir(f, p) == p \in DOMAIN f /\ f[p].t = "dir"
IsFile(f, p) == p \in DOMAIN f /\ f[p].t = "file"
IsLink(f, p) == p \in DOMAIN f /\ f[p].t = "link"

RECURSIVE RealPath(_, _, _)
\* os.path.realpath, strict=False: ".." pops a segment, a symbolic link is
\* replaced by its target, a missing segment is kept as written
RealPath(f, cur, rest) ==
    IF Len(rest) = 0 THEN cur
    ELSE IF Head(rest) = ".." THEN RealPath(f, Parent(cur), Tail(rest))
    ELSE LET nxt == Append(cur, Head(rest))
         IN  IF IsLink(f, nxt) THEN RealPath(f, f[nxt].to, Tail(rest))
             ELSE RealPath(f, nxt, Tail(rest))

\* Path.resolve(): relative paths start from the current directory
Resolve(f, p) == RealPath(f, IF p.abs THEN << >> ELSE CWD, p.parts)

\* every proper ancestor of p that exists is a directory that may be searched
Searchable(f, p) ==
    \A n \in 0..(Len(p) - 1) :
        LET a == SubSeq(p, 1, n) IN a \in DOMAIN f => f[a].x

RECURSIVE Walk(_, _, _)
\* the kernel's path walk from directory cur along rest: "ok" when it ends
\* on an existing entry, else the errno.  Every directory on the way must
\* exist and be searchable, ".." is the parent of where the walk stands, a
\* symbolic link is followed.
Walk(f, cur, rest) ==
    IF Len(rest) = 0 THEN (IF cur \in DOMAIN f THEN "ok" ELSE "ENOENT")
    ELSE IF cur \notin DOMAIN f THEN "ENOENT"
    ELSE IF f[cur].t # "dir" THEN "ENOTDIR"
    ELSE IF ~f[cur].x THEN "EACCES"
    ELSE IF Head(rest) = ".." THEN Walk(f, Parent(cur), Tail(rest))
    ELSE LET nxt == Append(cur, Head(rest))
         IN  IF IsLink(f, nxt) THEN Walk(f, f[nxt].to, Tail(rest))
             ELSE Walk(f, nxt, Tail(rest))

\* os.stat of an absolute path given by its segments: "ok", or the errno
Stat(f, p) == Walk(f, << >>, p)

\* the errnos Path.exists() and Path.is_dir() take for "no such file"
\* (pathlib._IGNORED_ERRNOS); any other OSError is raised to the caller
IgnoredErrnos == {"ENOENT", "ENOTDIR", "EBADF", "ELOOP"}

\* Path.exists(): [raised, value]
PathExists(f, p) ==
    LET st == Stat(f, p)
    IN  IF st = "ok" THEN [raised |-> "none", value |-> TRUE]
        ELSE IF st \in IgnoredErrnos THEN [raised |-> "none", value |-> FALSE]
        ELSE [raised |-> "PermissionError", value |-> FALSE]

\* Path.is_dir(): [raised, value]
PathIsDir(f, p) ==
    LET st == Stat(f, p)
    IN  IF st = "ok" THEN [raised |-> "none", value |-> f[RealPath(f, << >>, p)].t = "dir"]
        ELSE IF st \in IgnoredErrnos THEN [raised |-> "none", value |-> FALSE]
        ELSE [raised |-> "PermissionError", value |-> FALSE]

RECURSIVE Mkdirs(_, _)
\* Path.mkdir(parents=True, exist_ok=True): [raised, fs]
Mkdirs(f, p) ==
    IF ~Searchable(f, p) THEN [raised |-> "PermissionError", fs |-> f]
    ELSE IF p \in DOMAIN f
    THEN IF f[p].t = "dir" THEN [raised |-> "none", fs |-> f]
         ELSE [raised |-> "FileExistsError", fs |-> f]
    ELSE IF Parent(p) \notin DOMAIN f
    THEN LET up == Mkdirs(f, Parent(p))
         IN  IF up.raised # "none" THEN up
             ELSE [raised |-> "none", fs |-> (p :> DirNode) @@ up.fs]
    ELSE IF f[Parent(p)].t # "dir" THEN [raised |-> "NotADirectoryError", fs |-> f]
    ELSE [raised |-> "none", fs |-> (p :> DirNode) @@ f]

\* open(p, "wb"): the file is created, or truncated when it exists
OpenWrite(f, p) ==
    IF ~Searchable(f, p) THEN [raised |-> "PermissionError", fs |-> f]
    ELSE IF Len(p) = 0 \/ IsDir(f, p) THEN [raised |-> "IsADirectoryError", fs |-> f]
    ELSE IF Parent(p) \notin DOMAIN f THEN [raised |-> "FileNotFoundError", fs |-> f]
    ELSE IF f[Parent(p)].t # "dir" THEN [raised |-> "NotADirectoryError", fs |-> f]
    ELSE [raised |-> "none", fs |-> (p :> FileNode(<< >>)) @@ f]

\* f.write(chunk) on the file opened at p
WriteChunk(f, p, chunk) == (p :> FileNode(f[p].data \o chunk)) @@ f

Without(f, p) == [q \in DOMAIN f \ {p} |-> f[q]]

RemoveKeeps(f, p) == [raised |-> "none", fs |-> f]

\* os.remove(p)
Remove(f, p) ==
    IF ~Searchable(f, p) THEN [raised |-> "PermissionError", fs |-> f]
    ELSE IF p \notin DOMAIN f THEN [raised |-> "FileNotFoundError", fs |-> f]
    ELSE IF f[p].t = "dir" THEN [raised |-> "IsADirectoryError", fs |-> f]
    ELSE [raised |-> "none", fs |-> Without(f, p)]

\* shutil.move(src, dst) of a file: into dst when dst is a directory (and
\* then never over an existing entry), else os.rename, which replaces dst
Move(f, src, dst) ==
    LET real_dst == IF IsDir(f, dst) THEN Append(dst, src[Len(src)]) ELSE dst
    IN  IF ~Searchable(f, src) \/ ~Searchable(f, real_dst)
        THEN [raised |-> "PermissionError", fs |-> f]
        ELSE IF IsDir(f, dst) /\ real_dst \in DOMAIN f
        THEN [raised |-> "Error", fs |-> f]
        ELSE [raised |-> "none", fs |-> (real_dst :> f[src]) @@ Without(f, src)]

\* open(p, "a"), as logging.FileHandler does; the log text is not recorded
OpenAppend(f, p) ==
    IF IsFile(f, p) THEN [raised |-> "none", fs |-> f] ELSE OpenWrite(f, p)

\* Path.mkdir(exist_ok=True): [raised, fs]
Mkdir(f, p) ==
    IF ~Searchable(f, p) THEN [raised |-> "PermissionError", fs |-> f]
    ELSE IF p \in DOMAIN f
    THEN IF f[p].t = "dir" THEN [raised |-> "none", fs |-> f]
         ELSE [raised |-> "FileExistsError", fs |-> f]
    ELSE IF Parent(p) \notin DOMAIN f THEN [raised |-> "FileNotFoundError", fs |-> f]
    ELSE IF f[Parent(p)].t # "dir" THEN [raised |-> "NotADirectoryError", fs |-> f]
    ELSE [raised |-> "none", fs |-> (p :> DirNode) @@ f]

\* Path.expanduser(): [raised, path]
ExpandUser(p) ==
    IF ~p.abs /\ Len(p.parts) > 0 /\ StartsWith(Head(p.parts), "~")
    THEN IF Head(p.parts) = "~"
         THEN [raised |-> "none", path |-> AbsPath(HOME \o Tail(p.parts))]
         ELSE [raised |-> "RuntimeError", path |-> p]
    ELSE [raised |-> "none", path |-> p]

(***************************************************************************)
(* An optional value is the empty set (None) or a one-element set.         *)
(***************************************************************************)
None == {}
Some(v) == {v}
The(o) == CHOOSE v \in o : TRUE

(***************************************************************************)
(* ActionResponse: a pydantic model with the three declared fields; a      *)
(* keyword that names no declared field is ignored, a field not given      *)
(* takes its default.  message is an optional text, metadata is recorded   *)
(* by its keys.                                                            *)
(***************************************************************************)
ActionResponse(kw) ==
    [success  |-> IF "success" \in DOMAIN kw THEN kw.success ELSE FALSE,
     message  |-> IF "message" \in DOMAIN kw THEN kw.message ELSE None,
     metadata |-> IF "metadata" \in DOMAIN kw THEN kw.metadata ELSE {}]

(***************************************************************************)
(* ActionCollection.__init__                                               *)
(***************************************************************************)
Attr(name, callable) == [name |-> name, callable |-> callable, fn |-> name]

ObjectAttrs == {Attr("__init__", TRUE), Attr("__doc__", FALSE), Attr("__dict__", FALSE)}

BaseAttrs ==
    {Attr("run", TRUE), Attr("_color_log", TRUE),
     Attr("_obtain_valid_workspace", TRUE), Attr("_validate_file_path", TRUE)}

DownloadAttrs ==
    {Attr("_validate_url", TRUE), Attr("_resolve_output_path", TRUE),
     Attr("_format_download_output", TRUE), Attr("_download_file_async", TRUE),
     Attr("mcp_download_file", TRUE), Attr("mcp_get_download_capabilities", TRUE)}

XLSXAttrs ==
    {Attr("_extract_embedded_media_xlsx", TRUE), Attr("_extract_excel_content", TRUE),
     Attr("_format_content_for_llm", TRUE),
     Attr("mcp_extract_excel_content", TRUE), Attr("mcp_list_supported_formats", TRUE)}

Classes == {"ActionCollection", "DownloadCollection", "XLSXCollection"}

ClassAttrs(cls) ==
    ObjectAttrs \cup BaseAttrs \cup
    (IF cls = "DownloadCollection" THEN DownloadAttrs
     ELSE IF cls = "XLSXCollection" THEN XLSXAttrs ELSE {})

\* the instance attributes assigned before the workspace is resolved
AssignedBeforeWorkspace == {"unittest", "transport", "port", "supported_extensions"}

\* dir(self) at the registration loop
InstanceDir(cls) ==
    ClassAttrs(cls) \cup
    {Attr(n, FALSE) : n \in AssignedBeforeWorkspace \cup {"workspace", "logger", "server"}}

\* self._color_log(...): reads self.logger
ColorLog(assigned) == IF "logger" \in assigned THEN "none" ELSE "AttributeError"

\* `workspace or os.getenv("AWORLD_WORKSPACE")`: None and "" are falsy
ChosenEnvFirst(workspace, e) ==
    IF e # None /\ The(e) # "" THEN e ELSE workspace

Chosen(workspace, e) ==
    IF workspace # None /\ The(workspace) # "" THEN workspace ELSE e

\* _obtain_valid_workspace: [raised, path]
ObtainValidWorkspace(f, e, assigned, workspace) ==
    LET path_str == Chosen(workspace, e)
        fallback ==
            IF ColorLog(assigned) # "none"
            THEN [raised |-> ColorLog(assigned), path |-> << >>]
            ELSE [raised |-> "none", path |-> Resolve(f, AbsPath(HOME))]
    IN  IF path_str # None /\ The(path_str) # ""
        THEN LET x == ExpandUser(PurePath(The(path_str)))
                 path == Resolve(f, x.path)
                 d == PathIsDir(f, path)
             IN  IF x.raised # "none" THEN [raised |-> x.raised, path |-> << >>]
                 ELSE IF d.raised # "none" THEN [raised |-> d.raised, path |-> << >>]
                 ELSE IF d.value THEN [raised |-> "none", path |-> path]
                 ELSE fallback
        ELSE fallback

\* FastMCP.add_tool: the tool goes under its function's __name__; a name
\* already registered keeps its first tool
AddTool(tools, a) == tools \cup {a.fn}

RegistersAllCallables(a) == a.callable

\* the selection rule of the registration loop
Registers(a) == StartsWith(a.name, "mcp_") /\ a.callable

RECURSIVE RegisterTools(_, _)
RegisterTools(todo, tools) ==
    IF todo = {} THEN tools
    ELSE LET a == CHOOSE a \in todo : TRUE
         IN  RegisterTools(todo \ {a}, IF Registers(a) THEN AddTool(tools, a) ELSE tools)

\* 60 * 3 seconds
default_timeout == 180

NoCollection ==
    [built |-> FALSE, cls |-> "", workspace |-> << >>, supported_extensions |-> {},
     tools |-> {}, max_file_size |-> None, default_timeout |-> None,
     supported_schemes |-> {}]

\* setup_logger: the folder is made and the log file opened for append
SetupLogger(f, folder) ==
    LET d == Mkdirs(f, folder)
    IN  IF d.raised # "none" THEN d ELSE OpenAppend(d.fs, Append(folder, "main.log"))

\* the subclass's own __init__, after ActionCollection.__init__
SubclassInit(f, c) ==
    IF c.cls = "DownloadCollection"
    THEN [raised |-> "none", fs |-> f,
          coll |-> [c EXCEPT !.max_file_size = Some(max_file_size),
                             !.default_timeout = Some(default_timeout),
                             !.supported_schemes = {"http", "https"}]]
    ELSE IF c.cls = "XLSXCollection"
    THEN LET m == Mkdir(f, Append(c.workspace, "extracted_media"))
             sh == Mkdir(m.fs, Append(c.workspace, "excel_screenshots"))
         IN  IF m.raised # "none" THEN [raised |-> m.raised, fs |-> m.fs, coll |-> NoCollection]
             ELSE IF sh.raised # "none"
             THEN [raised |-> sh.raised, fs |-> sh.fs, coll |-> NoCollection]
             ELSE [raised |-> "none", fs |-> sh.fs,
                   coll |-> [c EXCEPT !.supported_extensions = {".xlsx", ".xls"}]]
    ELSE [raised |-> "none", fs |-> f, coll |-> c]

\* cls(ActionArguments(workspace=workspace)): [raised, fs, coll]
NewCollection(f, e, cls, workspace) ==
    LET w == ObtainValidWorkspace(f, e, AssignedBeforeWorkspace, workspace)
        lg == SetupLogger(f, w.path)
        c == [NoCollection EXCEPT !.built = TRUE, !.cls = cls, !.workspace = w.path,
                                  !.tools = RegisterTools(InstanceDir(cls), {})]
    IN  IF w.raised # "none" THEN [raised |-> w.raised, fs |-> f, coll |-> NoCollection]
        ELSE IF lg.raised # "none" THEN [raised |-> lg.raised, fs |-> lg.fs, coll |-> NoCollection]
        ELSE SubclassInit(lg.fs, c)

(***************************************************************************)
(* DownloadCollection                                                      *)
(***************************************************************************)
ValidateUrlAcceptsAll(c, url) == [is_valid |-> TRUE, error |-> ""]

\* _validate_url on the parts urlparse gives: [is_valid, error]
ValidateUrl(c, url) ==
    IF url.scheme = "" THEN [is_valid |-> FALSE, error |-> "URL must include a scheme"]
    ELSE IF Lower(url.scheme) \notin c.supported_schemes
    THEN [is_valid |-> FALSE, error |-> "Unsupported URL scheme"]
    ELSE IF url.netloc = "" THEN [is_valid |-> FALSE, error |-> "URL must include a valid domain"]
    ELSE [is_valid |-> TRUE, error |-> ""]

\* the security check of _resolve_output_path: the resolved path is the
\* resolved workspace or has it among its parents
WithinWorkspaceNoCheck(wsr, resolved) == TRUE

WithinWorkspace(wsr, resolved) == InParents(wsr, resolved) \/ resolved = wsr

\* the text joined to the workspace: an absolute output_path loses its
\* leading separators and blanks
Sanitize(output_path) ==
    IF IsAbs(output_path) THEN LStrip(output_path, {"/", "\\", " "}) ELSE output_path

\* _resolve_output_path: [path (None when rejected), fs]
ResolveOutputPath(f, c, output_path) ==
    LET resolved == Resolve(f, JoinPath(AbsPath(c.workspace), PurePath(Sanitize(output_path))))
        wsr == Resolve(f, AbsPath(c.workspace))
        made == Mkdirs(f, Parent(resolved))
    IN  IF ~WithinWorkspace(wsr, resolved) THEN [path |-> None, fs |-> f]
        ELSE IF made.raised # "none" THEN [path |-> None, fs |-> made.fs]
        ELSE [path |-> Some(resolved), fs |-> made.fs]

\* output_path.with_suffix(f"{output_path.suffix}.tmp"): [raised, path]
TempFilePathInPlace(path) == [raised |-> "none", path |-> path]

TempFilePath(path) ==
    IF Len(path) = 0 THEN [raised |-> "ValueError", path |-> path]
    ELSE [raised |-> "none", path |-> Append(Parent(path), path[Len(path)] \o ".tmp")]

RECURSIVE Stream(_, _, _, _, _, _)
\* the chunk loop of _download_file_async: [raised, fs, file_size, written];
\* written is the number of bytes passed to f.write
Stream(f, c, tmp, net, i, file_size) ==
    IF i > Len(net.chunks)
    THEN [raised |-> "none", fs |-> f, file_size |-> file_size, written |-> file_size]
    ELSE IF net.fail_at = i
    THEN [raised |-> "ConnectionError", fs |-> f, file_size |-> file_size,
          written |-> file_size]
    ELSE LET n == file_size + Len(net.chunks[i])
         IN  IF n > The(c.max_file_size)
             THEN LET r == Remove(f, tmp)
                  IN  [raised |-> IF r.raised = "none" THEN "ValueError" ELSE r.raised,
                       fs |-> r.fs, file_size |-> n, written |-> file_size]
             ELSE IF net.full_at = i
             THEN [raised |-> "OSError", fs |-> f, file_size |-> n, written |-> file_size]
             ELSE Stream(WriteChunk(f, tmp, net.chunks[i]), c, tmp, net, i + 1, n)

DownloadFailed(f, error_type) ==
    [success |-> FALSE, file_size_bytes |-> None, error_type |-> Some(error_type),
     status_code |-> None, fs |-> f]

\* what a transfer did on the disk: the paths it opened for writing or
\* moved a file to, and the number of bytes it wrote
Disk(wrote, written) == [wrote |-> wrote, written |-> written]

\* _download_file_async: the DownloadResult, the file system it leaves
\* and what it did on the disk
DownloadFileAsync(f, c, output_path, net) ==
    LET tmp == TempFilePath(output_path)
        opened == OpenWrite(f, tmp.path)
        streamed == Stream(opened.fs, c, tmp.path, net, 1, 0)
        moved == Move(streamed.fs, tmp.path, output_path)
    IN  IF net.connect # "ok" THEN DownloadFailed(f, "ConnectionError") @@ Disk({}, 0)
        ELSE IF net.content_length # None /\ The(net.content_length) > The(c.max_file_size)
        THEN DownloadFailed(f, "ValueError") @@ Disk({}, 0)
        ELSE IF net.status >= 400 THEN DownloadFailed(f, "HTTPError") @@ Disk({}, 0)
        ELSE IF tmp.raised # "none" THEN DownloadFailed(f, tmp.raised) @@ Disk({}, 0)
        ELSE IF opened.raised # "none"
        THEN DownloadFailed(opened.fs, opened.raised) @@ Disk({}, 0)
        ELSE IF streamed.raised # "none"
        THEN DownloadFailed(streamed.fs, streamed.raised) @@ Disk({tmp.path}, streamed.written)
        ELSE IF moved.raised # "none"
        THEN DownloadFailed(moved.fs, moved.raised) @@ Disk({tmp.path}, streamed.written)
        ELSE [success |-> TRUE, file_size_bytes |-> Some(streamed.file_size),
              error_type |-> None, status_code |-> Some(net.status), fs |-> moved.fs]
             @@ Disk({tmp.path} \cup
                         {p \in DOMAIN moved.fs :
                             p \notin DOMAIN streamed.fs \/ moved.fs[p] # streamed.fs[p]},
                     streamed.written)

Returned(resp, f, final) == [raised |-> "none", resp |-> resp, fs |-> f, final |-> final]

Raised(exc, f, final) ==
    [raised |-> exc, resp |-> ActionResponse([success |-> FALSE]), fs |-> f, final |-> final]

\* the overwrite guard of mcp_download_file
ExistsGuardOff(exists, overwrite) == FALSE

ExistsGuard(exists, overwrite) == exists /\ ~overwrite

\* mcp_download_file: [raised, resp, fs, final]; final is the resolved
\* destination, None before it is known or when it is rejected
McpDownloadFile(f, c, url, output_path, overwrite, net) ==
    LET v == ValidateUrl(c, url)
        r == ResolveOutputPath(f, c, output_path)
        ex == PathExists(r.fs, The(r.path))
        result == DownloadFileAsync(r.fs, c, The(r.path), net)
    IN  IF ~v.is_valid
        THEN Returned(ActionResponse([success |-> FALSE, message |-> Some("Invalid URL")]),
                      f, None)
        ELSE IF r.path = None
        THEN Returned(ActionResponse([success |-> FALSE,
                                      message |-> Some("Invalid output path specified.")]),
                      r.fs, None)
        ELSE IF ex.raised # "none" THEN Raised(ex.raised, r.fs, r.path)
        ELSE IF ExistsGuard(ex.value, overwrite)
        THEN Returned(ActionResponse([success |-> FALSE, message |-> Some("File already exists")]),
                      r.fs, r.path)
        ELSE Returned(ActionResponse(
                          [success |-> result.success,
                           message |-> Some(IF result.success THEN "Download completed."
                                            ELSE "Download failed."),
                           result |-> result.file_size_bytes,
                           formatted_output |-> Some("File Download")]),
                      result.fs, r.path) @@ [result |-> result]

\* mcp_get_download_capabilities
McpGetDownloadCapabilities(c) ==
    ActionResponse([success |-> TRUE, message |-> Some("Download Service Capabilities"),
                    metadata |-> {"requests_available", "supported_schemes",
                                  "supported_features", "supported_formats",
                                  "configuration", "safety_features"}])

(***************************************************************************)
(* _validate_file_path and XLSXCollection                                 *)
(***************************************************************************)
\* the extension test of _validate_file_path
Supported(c, path) == Lower(PathSuffix(path)) \in c.supported_extensions

\* the checks both _validate_file_path methods make on the path they built:
\* [raised, path]
Checked(f, c, path) ==
    LET ex == PathExists(f, path.parts)
    IN  IF ex.raised # "none" THEN [raised |-> ex.raised, path |-> path]
        ELSE IF ~ex.value THEN [raised |-> "FileNotFoundError", path |-> path]
        ELSE IF ~Supported(c, path) THEN [raised |-> "ValueError", path |-> path]
        ELSE [raised |-> "none", path |-> path]

\* the directory a relative file_path is taken from
AnchorCwd(c) == AbsPath(CWD)

Anchor(c) == AbsPath(c.workspace)

\* ActionCollection._validate_file_path: [raised, path]
ValidateFilePath(f, c, file_path) ==
    LET x == ExpandUser(PurePath(file_path))
    IN  IF x.raised # "none" THEN x
        ELSE Checked(f, c, JoinPath(Anchor(c), x.path))

\* XLSXCollection._validate_file_path: [raised, path]
XLSXValidateFilePath(f, c, file_path) ==
    Checked(f, c, JoinPath(Anchor(c), PurePath(file_path)))

\* PurePath.stem of a file name
NameStem(name) == SubSeq(name, 1, Len(name) - Len(NameSuffix(name)))

\* _extract_embedded_media_xlsx: each media file of the workbook is written
\* into extracted_media under the workbook's stem; a file that cannot be
\* written is skipped
ExtractEmbeddedMedia(f, c, path, media) ==
    LET target == Append(Append(c.workspace, "extracted_media"),
                         NameStem(PathName(path)) \o "_image1.png")
        opened == OpenWrite(f, target)
    IN  IF media = 0 \/ opened.raised # "none" THEN f
        ELSE WriteChunk(opened.fs, target, <<0>>)

\* the keys of DocumentMetadata.model_dump(exclude_none=True)
DocumentMetadataKeys ==
    {"file_name", "file_path", "file_size", "created_at", "modified_at", "file_type",
     "mime_type", "total_sheets", "sheet_names", "total_rows", "total_columns"}

\* mcp_extract_excel_content: [raised, resp, fs, final].  lib tells how the
\* libraries answer: whether reading the workbook raises, and how many
\* media files the workbook holds.
McpExtractExcelContent(f, c, file_path, extract_images, lib) ==
    LET v == XLSXValidateFilePath(f, c, file_path)
        after == IF extract_images /\ Lower(PathSuffix(v.path)) = ".xlsx"
                 THEN ExtractEmbeddedMedia(f, c, v.path, lib.media)
                 ELSE f
    IN  IF v.raised # "none"
        THEN Returned(ActionResponse([error |-> Some(v.raised), status |-> "error"]), f, None)
        ELSE IF lib.read # "ok"
        THEN Returned(ActionResponse([error |-> Some("An unexpected error occurred"),
                                      status |-> "error"]), f, Some(v.path.parts))
        ELSE Returned(ActionResponse([content |-> Some("Excel Document Content"),
                                      metadata |-> DocumentMetadataKeys,
                                      media_files |-> lib.media,
                                      screenshot_path |-> None,
                                      status |-> "success"]),
                      after, Some(v.path.parts))

\* mcp_list_supported_formats
McpListSupportedFormats(c) ==
    ActionResponse([success |-> TRUE, message |-> Some("Supported Excel formats"),
                    metadata |-> {"supported_formats", "total_formats"}])

(***************************************************************************)
(* The state: the file system, the AWORLD_WORKSPACE environment variable,  *)
(* the collection, and the last call made on it with what it gave.         *)
(***************************************************************************)
\* the paths whose node differs between two file systems
Changed(f, g) ==
    {p \in DOMAIN f \cup DOMAIN g :
        \/ p \notin DOMAIN f
        \/ p \notin DOMAIN g
        \/ f[p] # g[p]}

\* the asyncio event loop with the invocations scheduled on it: running is
\* the task whose coroutine the loop thread is executing, 0 when it is idle
Tasks == 1..MaxTasks

\* a task: the handler invoked, the step it is at and where it runs; for
\* mcp_download_file also how the server will answer it, the destination
\* it resolved and the success flag of its response
NoTask ==
    [op |-> "none", i |-> 0, at |-> "none", net |-> None, final |-> None, ok |-> None]

NoLoop == [tasks |-> [t \in Tasks |-> NoTask], running |-> 0]

NoCall ==
    [op |-> "none", path |-> "", overwrite |-> FALSE, raised |-> "none",
     resp |-> ActionResponse([success |-> FALSE]), final |-> None, changed |-> {},
     again |-> FALSE, workspace |-> None, result |-> None, body |-> << >>,
     requests |-> 0, n |-> 0, url |-> [scheme |-> "", netloc |-> ""],
     extracted |-> FALSE, upstream |-> None, value |-> None, flag |-> FALSE,
     status |-> 0, sent |-> None, net |-> None, lost |-> {}]

\* "/", the home /h with the workspace /h/w in it, /e outside, the current
\* directory /c; in the workspace a symbolic link l to /e and a directory k
\* that may not be searched
FS0 ==
    (<< >> :> DirNode) @@ (HOME :> DirNode) @@ (WS :> DirNode) @@
    (OUTSIDE :> DirNode) @@ (CWD :> DirNode) @@
    (Append(WS, "l") :> LinkNode(OUTSIDE)) @@ (Append(WS, "k") :> LockedDirNode)

Download0 == NewCollection(FS0, None, "DownloadCollection", Some("/h/w"))

Url(scheme, netloc) == [scheme |-> scheme, netloc |-> netloc]

\* the i-th chunk of a body: one byte or two
Chunk(i) == IF i % 2 = 1 THEN <<i>> ELSE <<i, i>>

Body(k) == [i \in 1..k |-> Chunk(i)]

RECURSIVE Flat(_)
Flat(chunks) == IF Len(chunks) = 0 THEN << >> ELSE Head(chunks) \o Flat(Tail(chunks))

Net(connect, status, content_length, chunks, fail_at) ==
    [connect |-> connect, status |-> status, content_length |-> content_length,
     chunks |-> chunks, fail_at |-> fail_at, full_at |-> 0]

\* the answer net, with the disk full when chunk i is written
DiskFull(net, i) == [net EXCEPT !.full_at = i]

SelfAfterCallResetsLimit(c) == [c EXCEPT !.max_file_size = None]

\* the collection after an action ran on it: the handlers read the fields
\* of self and assign none
SelfAfterCall(c) == c

\* the call mcp_download_file(url, output_path, overwrite=overwrite) with
\* the network answering as net
DownloadFile(url, output_path, overwrite, net) ==
    /\ coll.built /\ "mcp_download_file" \in coll.tools
    /\ call.n < MaxCalls
    /\ \E r \in {McpDownloadFile(fs, coll, url, output_path, overwrite, net)} :
          /\ fs' = r.fs
          /\ call' = [NoCall EXCEPT
                        !.op = "mcp_download_file", !.path = output_path,
                        !.n = call.n + 1, !.url = url,
                        !.overwrite = overwrite, !.raised = r.raised, !.resp = r.resp,
                        !.final = r.final, !.changed = Changed(fs, r.fs),
                        !.lost = {p \in Changed(fs, r.fs) : IsFile(fs, p)},
                        !.result = IF "result" \in DOMAIN r
                                   THEN Some([k \in DOMAIN r.result \ {"fs"} |-> r.result[k]])
                                   ELSE None,
                        !.body = Flat(net.chunks), !.net = Some(net),
                        !.requests = IF "result" \in DOMAIN r THEN 1 ELSE 0,
                        !.again = /\ call.op = "mcp_download_file"
                                  /\ call.raised = "none" /\ call.resp.success
                                  /\ call.path = output_path]
    /\ coll' = SelfAfterCall(coll)
    /\ UNCHANGED <<env, loop>>

(***************************************************************************)
(* SpecPath: one mcp_download_file call on a fresh DownloadCollection,     *)
(* for every output_path text over PathAlphabet up to MaxPathLen.          *)
(***************************************************************************)
PathAlphabet == {"/", "\\", " ", ".", "a", "l"}

InitPath ==
    /\ fs = Download0.fs
    /\ env = None
    /\ coll = Download0.coll
    /\ call = NoCall
    /\ loop = NoLoop

DownloadAnyPath ==
    /\ call.op = "none"
    /\ \E output_path \in Strs(PathAlphabet, MaxPathLen), overwrite \in BOOLEAN,
          net \in {Net("ok", 200, None, Body(1), 0), Net("error", 0, None, << >>, 0)} :
          DownloadFile(Url("http", "host"), output_path, overwrite, net)

NextPath == DownloadAnyPath

SpecPath == InitPath /\ [][NextPath]_vars

\* the resolved workspace root
Root == Resolve(fs, AbsPath(coll.workspace))

Inside(p) == IsPrefix(Root, p)

\* C1: whatever output_path mcp_download_file is given, the destination it
\* resolves is the workspace root or inside it, or the call is rejected with
\* a failure response and the file system is as it was.
C1_ResolvedInsideOrRejected ==
    call.op = "mcp_download_file" =>
        /\ call.final # None => Inside(The(call.final))
        /\ call.final = None =>
              /\ call.raised = "none"
              /\ ~call.resp.success
              /\ call.changed = {}

\* an absolute path that climbs out with ".." is rejected
C1_Witness ==
    /\ call.op = "mcp_download_file"
    /\ call.path = "/../a"
    /\ call.final = None
    /\ ~call.resp.success

(***************************************************************************)
(* SpecWs: a collection of each class is constructed with every explicit   *)
(* workspace text over WsAlphabet up to MaxWsLen (or none), under each     *)
(* value of AWORLD_WORKSPACE; its argument-free actions are then invoked.  *)
(***************************************************************************)
WsAlphabet == {"/", "h", "w", "~", "."}

EnvValues == {None, Some(""), Some("/e"), Some("/x")}

InitWs ==
    /\ fs = FS0
    /\ env \in EnvValues
    /\ coll = NoCollection
    /\ call = NoCall
    /\ loop = NoLoop

\* cls(ActionArguments(name=..., workspace=workspace))
Construct(cls, workspace) ==
    /\ ~coll.built /\ call.op = "none"
    /\ \E r \in {NewCollection(fs, env, cls, workspace)} :
          /\ fs' = r.fs
          /\ coll' = r.coll
          /\ call' = [NoCall EXCEPT !.op = "__init__", !.raised = r.raised,
                                    !.workspace = workspace,
                                    !.changed = Changed(fs, r.fs)]
    /\ UNCHANGED <<env, loop>>

ConstructAny ==
    \E cls \in Classes, workspace \in {None} \cup {Some(t) : t \in Strs(WsAlphabet, MaxWsLen)} :
        Construct(cls, workspace)

GetDownloadCapabilities ==
    /\ coll.built /\ "mcp_get_download_capabilities" \in coll.tools
    /\ call.n < MaxCalls
    /\ call' = [NoCall EXCEPT !.op = "mcp_get_download_capabilities", !.n = call.n + 1,
                              !.resp = McpGetDownloadCapabilities(coll)]
    /\ coll' = SelfAfterCall(coll)
    /\ UNCHANGED <<fs, env, loop>>

ListSupportedFormats ==
    /\ coll.built /\ "mcp_list_supported_formats" \in coll.tools
    /\ call.n < MaxCalls
    /\ call' = [NoCall EXCEPT !.op = "mcp_list_supported_formats", !.n = call.n + 1,
                              !.resp = McpListSupportedFormats(coll)]
    /\ coll' = SelfAfterCall(coll)
    /\ UNCHANGED <<fs, env, loop>>

NextWs == ConstructAny \/ GetDownloadCapabilities \/ ListSupportedFormats

SpecWs == InitWs /\ [][NextWs]_vars

\* an optional path text expands and resolves to an existing directory
NamesDir(f, o) ==
    /\ o # None
    /\ ExpandUser(PurePath(The(o))).raised = "none"
    /\ IsDir(f, Resolve(f, ExpandUser(PurePath(The(o))).path))

DirNamed(f, o) == Resolve(f, ExpandUser(PurePath(The(o))).path)

Constructed == call.op = "__init__" /\ call.raised = "none" /\ coll.built

\* C2: when neither the explicit workspace nor AWORLD_WORKSPACE names an
\* existing directory, construction succeeds with the home directory as the
\* workspace.
C2_FallbackIsHome ==
    (call.op = "__init__" /\ ~NamesDir(FS0, call.workspace) /\ ~NamesDir(FS0, env))
        => (Constructed /\ coll.workspace = HOME)

\* C3, as stated: an explicit workspace that expands and resolves to an
\* existing directory becomes the workspace, whatever AWORLD_WORKSPACE holds.
C3_ExplicitDirChosen ==
    (call.op = "__init__" /\ NamesDir(FS0, call.workspace))
        => (Constructed /\ coll.workspace = DirNamed(FS0, call.workspace))

\* C3, amended: an explicit workspace that is not the empty text and that
\* expands and resolves to an existing directory becomes the workspace,
\* whatever AWORLD_WORKSPACE holds.
C3_NonEmptyExplicitDirChosen ==
    (call.op = "__init__" /\ call.workspace # Some("") /\ NamesDir(FS0, call.workspace))
        => (Constructed /\ coll.workspace = DirNamed(FS0, call.workspace))

\* "~/w" is given while AWORLD_WORKSPACE names another directory
C3_Witness ==
    /\ Constructed
    /\ call.workspace = Some("~/w")
    /\ env = Some("/e")
    /\ coll.workspace = WS

\* C4: an explicit workspace that names no existing directory gives way to
\* AWORLD_WORKSPACE when that names one.
C4_EnvChosenAfterBadExplicit ==
    (call.op = "__init__" /\ call.workspace # None
        /\ ~NamesDir(FS0, call.workspace) /\ NamesDir(FS0, env))
        => (Constructed /\ coll.workspace = DirNamed(FS0, env))

\* the attributes of an instance that carry the action prefix and are callable
PrefixedCallables(cls) ==
    {a.name : a \in {b \in InstanceDir(cls) :
                        b.callable /\ Len(b.name) >= 4 /\ SubSeq(b.name, 1, 4) = "mcp_"}}

\* C9: the names registered on a constructed collection's server are exactly
\* its callable attributes named mcp_...; nothing is invoked before the
\* collection is constructed, and what is invoked is registered.
C9_RegisteredExactlyPrefixed ==
    /\ coll.built => coll.tools = PrefixedCallables(coll.cls)
    /\ ~coll.built => call.op \in {"none", "__init__"}
    /\ call.op \notin {"none", "__init__"} => call.op \in coll.tools

C9_Witness ==
    /\ coll.built
    /\ coll.cls = "DownloadCollection"
    /\ coll.tools = {"mcp_download_file", "mcp_get_download_capabilities"}
    /\ call.op = "mcp_get_download_capabilities"

(***************************************************************************)
(* SpecValidate: one _validate_file_path call on a collection whose        *)
(* workspace is /h/w, for every file_path text made of up to MaxFileLen    *)
(* tokens of FileTokens.  The collection is an XLSXCollection, or one      *)
(* that inherits ActionCollection._validate_file_path with one of          *)
(* ExtensionSets as its supported_extensions.                              *)
(***************************************************************************)
FileTokens == {"/", "..", "~", "a", "d", "k", ".csv", ".CSV", ".xls"}

ExtensionSets == {{}, {".csv"}, {".xlsx", ".xls"}}

\* FS0 with files in the workspace (in it, in its directory d and behind
\* its directory k), in the home directory, in the current directory and
\* under "/"
FSV ==
    (Append(WS, "a") :> FileNode(<<1>>)) @@
    (Append(WS, "a.csv") :> FileNode(<<1>>)) @@
    (Append(WS, "a.CSV") :> FileNode(<<1>>)) @@
    (Append(WS, "a.xls") :> FileNode(<<1>>)) @@
    (Append(WS, "d") :> DirNode) @@
    (WS \o <<"d", "a.csv">> :> FileNode(<<1>>)) @@
    (WS \o <<"k", "a.csv">> :> FileNode(<<1>>)) @@
    (Append(HOME, "a.csv") :> FileNode(<<1>>)) @@
    (Append(HOME, "d.xls") :> FileNode(<<1>>)) @@
    (Append(CWD, "d.csv") :> FileNode(<<1>>)) @@
    (Append(CWD, "d.xls") :> FileNode(<<1>>)) @@
    (<<"a.csv">> :> FileNode(<<1>>)) @@
    FS0

\* a collection of a class whose __init__ sets supported_extensions to S
\* and that inherits _validate_file_path
Inheriting(S) ==
    LET r == NewCollection(FSV, None, "ActionCollection", Some("/h/w"))
    IN  [r EXCEPT !.coll.supported_extensions = S]

InitValidate ==
    /\ env = None
    /\ call = NoCall
    /\ loop = NoLoop
    /\ \E r \in {Inheriting(S) : S \in ExtensionSets}
              \cup {NewCollection(FSV, None, "XLSXCollection", Some("/h/w"))} :
          /\ fs = r.fs
          /\ coll = r.coll

\* self._validate_file_path(file_path), dispatched on the class
ValidateFile(file_path) ==
    /\ coll.built
    /\ \E r \in {IF coll.cls = "XLSXCollection"
                 THEN XLSXValidateFilePath(fs, coll, file_path)
                 ELSE ValidateFilePath(fs, coll, file_path)} :
          call' = [NoCall EXCEPT !.op = "_validate_file_path", !.path = file_path,
                                 !.raised = r.raised,
                                 !.final = IF r.raised = "none" THEN Some(r.path.parts)
                                           ELSE None]
    /\ UNCHANGED <<fs, env, coll, loop>>

ValidateAnyFile ==
    /\ call.op = "none"
    /\ \E file_path \in Strs(FileTokens, MaxFileLen) : ValidateFile(file_path)

NextValidate == ValidateAnyFile

SpecValidate == InitValidate /\ [][NextValidate]_vars

\* the path the caller means by the relative text p: W/p
UnderWorkspace(p) == coll.workspace \o PurePath(p).parts

\* the file extension of the text p, lower-cased
LowerExtension(p) == Lower(PathSuffix(PurePath(p)))

\* p is relative, and stays so when the class expands "~"
StaysRelative(p) ==
    /\ ~IsAbs(p)
    /\ coll.cls # "XLSXCollection" => ~StartsWith(p, "~")

\* C7, as stated: for a non-empty set S and any relative p,
\* _validate_file_path fails with not-found when W/p does not exist, else
\* with unsupported-type when p's lower-cased extension is not in S, else
\* returns W/p.
C7_RelativeAgainstWorkspace ==
    (call.op = "_validate_file_path" /\ coll.supported_extensions # {} /\ ~IsAbs(call.path))
        => LET st == Walk(fs, << >>, UnderWorkspace(call.path))
           IN  IF st # "ok" THEN call.raised = "FileNotFoundError"
               ELSE IF LowerExtension(call.path) \notin coll.supported_extensions
               THEN call.raised = "ValueError"
               ELSE call.raised = "none" /\ call.final = Some(UnderWorkspace(call.path))

\* C7, amended: for a non-empty set S and a relative p that does not begin
\* with "~" where the class expands it, _validate_file_path fails with a
\* permission error when a directory on the way to W/p may not be searched,
\* else with not-found when W/p does not exist, else with unsupported-type
\* when p's lower-cased extension is not in S, else returns W/p.
C7_RelativeAfterExpansionAgainstWorkspace ==
    (call.op = "_validate_file_path" /\ coll.supported_extensions # {}
        /\ StaysRelative(call.path))
        => LET st == Walk(fs, << >>, UnderWorkspace(call.path))
           IN  IF st = "EACCES" THEN call.raised = "PermissionError"
               ELSE IF st # "ok" THEN call.raised = "FileNotFoundError"
               ELSE IF LowerExtension(call.path) \notin coll.supported_extensions
               THEN call.raised = "ValueError"
               ELSE call.raised = "none" /\ call.final = Some(UnderWorkspace(call.path))

\* "d.csv" is only in the current directory, "a.CSV" is in the workspace
C7_Witness ==
    /\ call.op = "_validate_file_path"
    /\ coll.cls = "ActionCollection"
    /\ coll.supported_extensions = {".csv"}
    /\ \/ call.path = "d.csv" /\ call.raised = "FileNotFoundError"
       \/ call.path = "a.CSV" /\ call.final = Some(<<"h", "w", "a.CSV">>)

\* C8: with an empty supported_extensions every existing path is accepted
\* and returned, whatever its extension.
C8_EmptySetIsWildcard ==
    (call.op = "_validate_file_path" /\ coll.supported_extensions = {}
        /\ StaysRelative(call.path)
        /\ Walk(fs, << >>, UnderWorkspace(call.path)) = "ok")
        => call.raised = "none" /\ call.final = Some(UnderWorkspace(call.path))

(***************************************************************************)
(* Spec: a DownloadCollection or an XLSXCollection on the workspace /h/w,  *)
(* and any sequence of calls of its registered actions.                    *)
(***************************************************************************)
\* FS0 with two workbooks, a text file and a directory d in the workspace
FSM ==
    (Append(WS, "b.xlsx") :> FileNode(<<1>>)) @@
    (Append(WS, "b.xls") :> FileNode(<<1>>)) @@
    (Append(WS, "b.txt") :> FileNode(<<1>>)) @@
    (Append(WS, "d") :> DirNode) @@
    FS0

Init ==
    /\ env = None
    /\ call = NoCall
    /\ loop = NoLoop
    /\ \E r \in {NewCollection(FSM, None, cls, Some("/h/w")) :
                    cls \in {"DownloadCollection", "XLSXCollection"}} :
          /\ fs = r.fs
          /\ coll = r.coll

\* how the network may answer: no connection, an error status, or a body
\* of k chunks, its length announced or not, that may break off before its
\* last chunk
Nets ==
    {Net("error", 0, None, << >>, 0), Net("ok", 404, None, << >>, 0)} \cup
    {Net("ok", 200, None, Body(k), fail_at) : k \in 0..MaxChunks, fail_at \in {0, MaxChunks}} \cup
    {Net("ok", 200, Some(Len(Flat(Body(k)))), Body(k), 0) : k \in {1, MaxChunks}}

\* the calls made: every answer of the network for the output paths that
\* reach the transfer, one call for each path that does not, and one for
\* each kind of invalid URL
DownloadInputs ==
    ({Url("http", "host")} \X {"f", "d", "n/f"} \X BOOLEAN \X Nets) \cup
    ({Url("http", "host")} \X {"../f", "l/f", "k/f"} \X {FALSE} \X {Net("ok", 200, None, Body(1), 0)}) \cup
    ({Url("ftp", "host"), Url("", "host"), Url("HTTPS", "")} \X {"n/f"} \X {FALSE}
        \X {Net("ok", 200, None, Body(1), 0)})

DownloadAny ==
    \E inp \in DownloadInputs : DownloadFile(inp[1], inp[2], inp[3], inp[4])

\* the call mcp_extract_excel_content(file_path, extract_images=...) with
\* the libraries answering as lib
ExtractExcelContent(file_path, extract_images, lib) ==
    /\ coll.built /\ "mcp_extract_excel_content" \in coll.tools
    /\ call.n < MaxCalls
    /\ \E r \in {McpExtractExcelContent(fs, coll, file_path, extract_images, lib)} :
          /\ fs' = r.fs
          /\ call' = [NoCall EXCEPT
                        !.op = "mcp_extract_excel_content", !.path = file_path,
                        !.n = call.n + 1,
                        !.raised = r.raised, !.resp = r.resp, !.final = r.final,
                        !.changed = Changed(fs, r.fs),
                        !.extracted = r.final # None /\ lib.read = "ok"]
    /\ coll' = SelfAfterCall(coll)
    /\ UNCHANGED <<env, loop>>

ExtractAny ==
    \E file_path \in {"b.xlsx", "b.xls", "b.txt", "n.xlsx", "k/b.xls"},
       extract_images \in BOOLEAN,
       lib \in [read : {"ok", "error"}, media : {0, 1}] :
        ExtractExcelContent(file_path, extract_images, lib)

Next == DownloadAny \/ GetDownloadCapabilities \/ ExtractAny \/ ListSupportedFormats

Spec == Init /\ [][Next]_vars

Actions ==
    {"mcp_download_file", "mcp_get_download_capabilities",
     "mcp_extract_excel_content", "mcp_list_supported_formats"}

\* the two shapes of a response
SuccessShape(resp) == resp.success /\ resp.message # None

ErrorShape(resp) == ~resp.success /\ resp.message # None

\* C5: every response an action returns has exactly one of the two shapes:
\* success flag true with its payload, or success flag false with its error
\* message.
C5_ExactlyOneShape ==
    (call.op \in Actions /\ call.raised = "none")
        => SuccessShape(call.resp) # ErrorShape(call.resp)

\* C6: no exception leaves mcp_download_file or mcp_extract_excel_content.
C6_NoExceptionEscapes ==
    call.op \in {"mcp_download_file", "mcp_extract_excel_content"} => call.raised = "none"

\* C10: mcp_download_file called again with the output path of the
\* successful call before it, overwrite not set, reports failure and
\* changes no file.
C10_SecondDownloadRefused ==
    (call.op = "mcp_download_file" /\ call.again /\ ~call.overwrite)
        => /\ call.raised = "none"
           /\ ~call.resp.success
           /\ call.changed = {}

\* the second call carried a different body than the one on disk
C10_Witness ==
    /\ call.op = "mcp_download_file" /\ call.again /\ ~call.overwrite
    /\ call.resp.message = Some("File already exists")
    /\ fs[Append(WS, "f")].data = <<1>>

\* the last call's DownloadResult reports success
Downloaded ==
    /\ call.op = "mcp_download_file"
    /\ call.result # None
    /\ The(call.result).success

\* C11: a successful download of a body of N bytes gives a DownloadResult
\* with file_size_bytes = N, and the destination then is a file that holds
\* exactly the N bytes of the body.
C11_RoundTrip ==
    Downloaded =>
        /\ The(call.result).file_size_bytes = Some(Len(call.body))
        /\ IsFile(fs, The(call.final))
        /\ fs[The(call.final)].data = call.body

\* what a DownloadResult holds
DownloadResultFields ==
    {"url", "file_path", "success", "file_size_bytes", "duration_seconds", "timestamp",
     "status_code", "content_type", "error_message", "error_type"}

\* a caller reading resp finds the DownloadResult in it: as a field of its
\* own, in the formatted text, or spread over the metadata
CarriesResult(resp) ==
    \/ "result" \in DOMAIN resp
    \/ "formatted_output" \in DOMAIN resp
    \/ DownloadResultFields \subseteq resp.metadata

\* C12: the response mcp_download_file returns after a transfer was
\* attempted carries the structured download result.
C12_ResponseCarriesResult ==
    (call.op = "mcp_download_file" /\ call.raised = "none" /\ call.result # None)
        => CarriesResult(call.resp)

\* C13: mcp_extract_excel_content on an existing .xlsx or .xls file whose
\* extraction raises nothing returns a response that is marked successful
\* and holds the formatted content and the document metadata.
C13_ExtractionMarkedSuccessful ==
    (call.op = "mcp_extract_excel_content" /\ call.extracted)
        => /\ call.resp.success
           /\ call.resp.message # None \/ "content" \in DOMAIN call.resp
           /\ DocumentMetadataKeys \subseteq call.resp.metadata

\* the URL has no scheme, a scheme other than http and https, or no host
InvalidUrl(url) ==
    \/ url.scheme = ""
    \/ Lower(url.scheme) \notin {"http", "https"}
    \/ url.netloc = ""

\* output_path, taken from the workspace, leads out of it
Escapes(output_path) ==
    ~Inside(Resolve(fs, JoinPath(AbsPath(coll.workspace), PurePath(Sanitize(output_path)))))

JsonObject(members) == [type |-> "object", members |-> members]
JsonArray(items) == [type |-> "array", items |-> items]

\* dict.get(key): the member, or None
Get(obj, key) ==
    IF key \in DOMAIN obj.members THEN Some(obj.members[key]) ELSE None

\* what the upstream does with the one request: the connection fails or
\* times out (error), or it answers with a status and a body that is a
\* JSON value or is no JSON (None)
Upstream(error, status, json) == [error |-> error, status |-> status, json |-> json]

\* ClientResponse.raise_for_status(): raises unless status < 400
RaisesForStatus(status) == status >= 400

\* the outcome of `async with session.post/get(...) as response:
\* response.raise_for_status(); await response.json()`: [raised, json]
RoundTrip(up) ==
    IF up.error # "none" THEN [raised |-> up.error, json |-> None]
    ELSE IF RaisesForStatus(up.status)
    THEN [raised |-> "ClientResponseError", json |-> None]
    ELSE IF up.json = None THEN [raised |-> "ContentTypeError", json |-> None]
    ELSE [raised |-> "none", json |-> up.json]

\* ChatCompletionResponse: the fields the service passes, and the id of
\* the upstream completion it wraps
ChatCompletionResponse(kw) ==
    [success |-> kw.success, request_id |-> kw.request_id, response |-> kw.response,
     model |-> kw.model, usage |-> kw.usage, id |-> Get(kw.response, "id")]

\* ModelsResponse: the fields the service passes, and the data list of the
\* upstream answer it wraps
ModelsResponse(kw) ==
    [success |-> kw.success, request_id |-> kw.request_id, models |-> kw.models,
     count |-> kw.count, data |-> Get(kw.models, "data")]

BuildHeadersProcessKey(request) ==
    ("Authorization" :> "Bearer k1") @@ ("Content-Type" :> "application/json")

\* _build_headers: a function from header names to values
BuildHeaders(request) ==
    LET base == ("Authorization" :> ("Bearer " \o request.api_key)) @@
                ("Content-Type" :> "application/json")
        referer == IF request.site_url # None /\ The(request.site_url) # ""
                   THEN ("HTTP-Referer" :> The(request.site_url)) @@ base ELSE base
    IN  IF request.site_name # None /\ The(request.site_name) # ""
        THEN ("X-Title" :> The(request.site_name)) @@ referer ELSE referer

optional_fields ==
    {"max_tokens", "temperature", "top_p", "frequency_penalty", "presence_penalty", "stream"}

\* _build_chat_payload: the members of the JSON object sent
BuildChatPayload(request) ==
    LET given == {f \in optional_fields : request[f] # None}
    IN  [f \in {"model", "messages"} \cup given |->
            IF f \in given THEN The(request[f]) ELSE request[f]]

Failure == [value |-> None, flag |-> FALSE, raised |-> "none"]

Success(response) == [value |-> Some(response), flag |-> TRUE, raised |-> "none"]

ResponseKeptEmpty(response_data) == JsonObject([choices |-> << >>])

\* the upstream body as it is put into the ChatCompletionResponse
ResponseKept(response_data) == response_data

\* OpenRouterService.chat_completion: [value, flag, raised]
ChatCompletion(request, request_id, up) ==
    LET rt == RoundTrip(up)
        response_data == The(rt.json)
    IN  IF rt.raised # "none" THEN Failure
        ELSE IF response_data.type # "object" THEN Failure
        ELSE Success(ChatCompletionResponse(
                 [success |-> TRUE, request_id |-> request_id,
                  response |-> ResponseKept(response_data), model |-> request.model,
                  usage |-> Get(response_data, "usage")]))

ModelCountZero(data) == 0

\* len(models_data.get("data", []))
ModelCount(data) ==
    IF data = None THEN 0
    ELSE IF The(data).type = "array" THEN Len(The(data).items)
    ELSE Cardinality(DOMAIN The(data).members)

\* OpenRouterService.list_models: [value, flag, raised]
ListModels(request_id, up) ==
    LET rt == RoundTrip(up)
        models_data == The(rt.json)
    IN  IF rt.raised # "none" THEN Failure
        ELSE IF models_data.type # "object" THEN Failure
        ELSE Success(ModelsResponse(
                 [success |-> TRUE, request_id |-> request_id, models |-> models_data,
                  count |-> ModelCount(Get(models_data, "data"))]))

\* OpenRouterService(): setup_logger(__name__) makes ./logs/main.log
NewService(f) == SetupLogger(f, Append(CWD, "logs"))

\* the except clauses of an endpoint: the status of the HTTPException that
\* leaves it for an exception raised in its try block
Caught(exc, clauses) ==
    IF exc = "ValidationError" /\ "ValidationError" \in clauses THEN 400 ELSE 500

\* the body of an endpoint's try block after the service call: the
\* exception raised in it, or "none"
AfterServiceCall(r) ==
    IF r.raised # "none" THEN r.raised
    ELSE IF ~r.flag THEN "HTTPException(502)"
    ELSE "none"

\* an endpoint: [status, fs] for the service outcome r
Endpoint(f, r, clauses) ==
    LET svc == NewService(f)
        exc == IF svc.raised # "none" THEN svc.raised ELSE AfterServiceCall(r)
    IN  [status |-> IF exc = "none" THEN 200 ELSE Caught(exc, clauses), fs |-> svc.fs]

\* POST /openrouter/completions
ChatCompletionsEndpoint(f, chat_request, request_id, up) ==
    Endpoint(f, ChatCompletion(chat_request, request_id, up), {"ValidationError", "Exception"})

\* GET /openrouter/models
ListModelsEndpoint(f, request_id, up) ==
    Endpoint(f, ListModels(request_id, up), {"Exception"})

(***************************************************************************)
(* SpecProxy: one call of the service or of an endpoint, for each request  *)
(* of ChatRequests and each behaviour of the upstream.                     *)
(***************************************************************************)
\* ChatCompletionRequest objects: the optional fields given or not
ChatRequests ==
    [model : {"m"}, messages : {<<"hi">>}, api_key : {"k1", "k2"},
     site_url : {None, Some(""), Some("u")}, site_name : {None, Some("s")},
     max_tokens : {None, Some(0)}, temperature : {None}, top_p : {None},
     frequency_penalty : {None}, presence_penalty : {None}, stream : {None, Some(FALSE)}]

\* a status of each class, with 302 the status of a redirect that names no
\* location and so is not followed
Statuses == {200, 201, 302, 404, 500}

Completions ==
    {JsonObject([id |-> "x", choices |-> << >>]),
     JsonObject([id |-> "y", choices |-> << >>, usage |-> JsonObject([total_tokens |-> 3])])}

ModelLists ==
    {JsonObject([data |-> JsonArray(<< >>)]),
     JsonObject([data |-> JsonArray(<<"m1", "m2">>)]),
     JsonObject([error |-> "e"])}

Upstreams(bodies) ==
    {Upstream(e, 0, None) : e \in {"ClientConnectorError", "TimeoutError"}} \cup
    {Upstream("none", st, js) :
        st \in Statuses, js \in {None, Some(JsonArray(<< >>))} \cup {Some(b) : b \in bodies}}

InitProxy ==
    /\ fs = FS0
    /\ env = None
    /\ coll = NoCollection
    /\ call = NoCall
    /\ loop = NoLoop

\* service = OpenRouterService(); await service.chat_completion(request, id)
\* sent: the request, and the headers and the payload posted for it
ChatCompletionCall(request, up) ==
    \E r \in {ChatCompletion(request, "r1", up)} :
      /\ fs' = NewService(fs).fs
      /\ call' = [NoCall EXCEPT !.op = "chat_completion", !.n = call.n + 1,
                    !.upstream = Some(up), !.value = r.value, !.flag = r.flag,
                    !.raised = r.raised, !.again = call.op = "chat_completion",
                    !.sent = Some([request |-> request,
                                   headers |-> BuildHeaders(request),
                                   payload |-> BuildChatPayload(request)])]
      /\ UNCHANGED <<env, coll, loop>>

CallChatCompletion ==
    /\ call.op = "none"
    /\ \E request \in ChatRequests, up \in Upstreams(Completions) :
          ChatCompletionCall(request, up)

\* a further chat_completion call in the same process, answered 200
CallChatCompletionAgain ==
    /\ call.op = "chat_completion" /\ call.n < MaxCalls
    /\ \E request \in ChatRequests :
          ChatCompletionCall(request,
                             Upstream("none", 200, Some(JsonObject([id |-> "x", choices |-> << >>]))))

\* service = OpenRouterService(); await service.list_models(id)
CallListModels ==
    /\ call.op = "none"
    /\ \E up \in Upstreams(ModelLists) :
        \E r \in {ListModels("r1", up)} :
          /\ fs' = NewService(fs).fs
          /\ call' = [NoCall EXCEPT !.op = "list_models", !.n = 1,
                        !.upstream = Some(up), !.value = r.value, !.flag = r.flag,
                        !.raised = r.raised]
    /\ UNCHANGED <<env, coll, loop>>

\* a client's POST /openrouter/completions
PostCompletions ==
    /\ call.op = "none"
    /\ \E request \in ChatRequests, up \in Upstreams(Completions) :
        \E r \in {ChatCompletionsEndpoint(fs, request, "r1", up)} :
          /\ fs' = r.fs
          /\ call' = [NoCall EXCEPT !.op = "POST /openrouter/completions", !.n = 1,
                        !.upstream = Some(up), !.status = r.status,
                        !.flag = ChatCompletion(request, "r1", up).flag]
    /\ UNCHANGED <<env, coll, loop>>

\* a client's GET /openrouter/models
GetModels ==
    /\ call.op = "none"
    /\ \E up \in Upstreams(ModelLists) :
        \E r \in {ListModelsEndpoint(fs, "r1", up)} :
          /\ fs' = r.fs
          /\ call' = [NoCall EXCEPT !.op = "GET /openrouter/models", !.n = 1,
                        !.upstream = Some(up), !.status = r.status,
                        !.flag = ListModels("r1", up).flag]
    /\ UNCHANGED <<env, coll, loop>>

NextProxy ==
    \/ CallChatCompletion
    \/ CallChatCompletionAgain
    \/ CallListModels
    \/ PostCompletions
    \/ GetModels

SpecProxy == InitProxy /\ [][NextProxy]_vars

ServiceCalled == call.op \in {"chat_completion", "list_models"}

\* the round trip failed: no connection, a timeout, a status outside
\* 200..299, or a body that is no JSON
UpstreamFailed(up) ==
    \/ up.error # "none"
    \/ up.status < 200 \/ up.status > 299
    \/ up.json = None

\* C14: chat_completion and list_models return (None, False) whenever the
\* round trip fails; they never raise, and the response is None exactly
\* when the flag is False.
C14_FailureCollapses ==
    ServiceCalled =>
        /\ call.raised = "none"
        /\ (call.value = None) <=> ~call.flag
        /\ UpstreamFailed(The(call.upstream)) => (call.value = None /\ ~call.flag)

\* the upstream answered 200 with a JSON object
Answered200(up) ==
    up.error = "none" /\ up.status = 200 /\ up.json # None /\ The(up.json).type = "object"

C17_UpstreamFailureIs502 ==
    (call.op \in {"POST /openrouter/completions", "GET /openrouter/models"} /\ ~call.flag)
        => call.status = 502

(***************************************************************************)
(* SpecLoop: up to MaxTasks invocations of mcp_download_file and           *)
(* mcp_extract_excel_content scheduled on one event loop.  A coroutine     *)
(* runs on the loop thread until it awaits something that suspends it;     *)
(* `await asyncio.to_thread(f)` suspends it while a worker thread runs f.  *)
(***************************************************************************)
\* a step run in the coroutine itself, on the loop thread
Inline(name, io) == [name |-> name, kind |-> "inline", io |-> io]

\* a step run by `await asyncio.to_thread(...)`
ToThread(name, io) == [name |-> name, kind |-> "to_thread", io |-> io]

DownloadProgramOffloaded ==
    <<Inline("_validate_url", FALSE),
      ToThread("_resolve_output_path", TRUE),
      ToThread("final_path.exists", TRUE),
      ToThread("requests.get", TRUE),
      ToThread("write chunks", TRUE),
      ToThread("shutil.move", TRUE)>>

\* mcp_download_file in order; io: the step does file or network work.
\* No step of it is awaited in a thread: _download_file_async is a
\* coroutine that holds no await.
DownloadProgram ==
    <<Inline("_validate_url", FALSE),
      Inline("_resolve_output_path", TRUE),
      Inline("final_path.exists", TRUE),
      Inline("requests.get", TRUE),
      Inline("write chunks", TRUE),
      Inline("shutil.move", TRUE)>>

\* mcp_extract_excel_content in order, with extract_images set
ExtractProgram ==
    <<ToThread("path.exists", TRUE),
      ToThread("extract", TRUE),
      ToThread("format_content", FALSE),
      ToThread("extract_media", TRUE),
      ToThread("os.stat", TRUE),
      ToThread("get_mime_type", TRUE)>>

Program(op) ==
    IF op = "mcp_download_file" THEN DownloadProgram ELSE ExtractProgram

\* the step task t is at, if it has not run through its program
Step(t) == Program(loop.tasks[t].op)[loop.tasks[t].i]

Finished(t) == loop.tasks[t].i > Len(Program(loop.tasks[t].op))

\* the output_path of every mcp_download_file invocation made on the loop
\* (overwrite is not set), and the bytes the server has for task t
SharedPath == "f"

BodyFor(t) == <<<<t>>, <<t>>>>

\* what the step task t is at does: the file system after it, the
\* destination once resolved, and the success flag once it is known.  The
\* steps of mcp_extract_excel_content change no file.
Work(t) ==
    LET task == loop.tasks[t]
        name == Step(t).name
        net == The(task.net)
        on == [fs |-> fs, final |-> task.final, ok |-> None]
        resolved == ResolveOutputPath(fs, coll, SharedPath)
        tmp == TempFilePath(The(task.final)).path
        opened == OpenWrite(fs, tmp)
        streamed == Stream(opened.fs, coll, tmp, net, 1, 0)
        moved == Move(fs, tmp, The(task.final))
    IN  IF task.op # "mcp_download_file" \/ name = "_validate_url" THEN on
        ELSE IF name = "_resolve_output_path"
        THEN [fs |-> resolved.fs, final |-> resolved.path,
              ok |-> IF resolved.path = None THEN Some(FALSE) ELSE None]
        ELSE IF name = "final_path.exists"
        THEN [on EXCEPT !.ok = IF ExistsGuard(PathExists(fs, The(task.final)).value, FALSE)
                               THEN Some(FALSE) ELSE None]
        ELSE IF name = "requests.get"
        THEN [on EXCEPT !.ok = IF \/ net.connect # "ok"
                                  \/ /\ net.content_length # None
                                     /\ The(net.content_length) > The(coll.max_file_size)
                                  \/ net.status >= 400
                               THEN Some(FALSE) ELSE None]
        ELSE IF name = "write chunks"
        THEN IF opened.raised # "none" THEN [on EXCEPT !.ok = Some(FALSE)]
             ELSE [fs |-> streamed.fs, final |-> task.final,
                   ok |-> IF streamed.raised # "none" THEN Some(FALSE) ELSE None]
        ELSE IF moved.raised # "none" THEN [on EXCEPT !.ok = Some(FALSE)]
             ELSE [fs |-> moved.fs, final |-> task.final, ok |-> Some(TRUE)]

\* task t after the step it is at: at the next step, or past the last one
\* when the step made the handler return a failure
After(t, w, at) ==
    [loop.tasks[t] EXCEPT
        !.i = IF w.ok = Some(FALSE) THEN Len(Program(loop.tasks[t].op)) + 1 ELSE @ + 1,
        !.final = w.final, !.ok = w.ok, !.at = at]

InitLoop ==
    /\ env = None
    /\ call = NoCall
    /\ loop = NoLoop
    /\ \E r \in {NewCollection(FSM, None, "DownloadCollection", Some("/h/w"))} :
          /\ fs = r.fs
          /\ coll = r.coll

\* the host schedules an invocation of op as task t; net is how the server
\* will answer a download
Invoke(t, op, net) ==
    /\ loop.tasks[t].op = "none"
    /\ loop' = [loop EXCEPT !.tasks[t] = [NoTask EXCEPT !.op = op, !.i = 1, !.at = "ready",
                                                         !.net = net]]
    /\ UNCHANGED <<fs, env, coll, call>>

\* the idle loop runs a task that is ready
Run(t) ==
    /\ loop.running = 0
    /\ loop.tasks[t].at = "ready"
    /\ loop' = [loop EXCEPT !.running = t, !.tasks[t].at = "loop"]
    /\ UNCHANGED <<fs, env, coll, call>>

\* the running coroutine completes an inline step and goes on
StepInline(t) ==
    /\ loop.running = t /\ ~Finished(t)
    /\ Step(t).kind = "inline"
    /\ \E w \in {Work(t)} :
          /\ fs' = w.fs
          /\ loop' = [loop EXCEPT !.tasks[t] = After(t, w, "loop")]
    /\ UNCHANGED <<env, coll, call>>

\* the running coroutine awaits asyncio.to_thread: the work goes to a
\* worker thread and the loop is free
Await(t) ==
    /\ loop.running = t /\ ~Finished(t)
    /\ Step(t).kind = "to_thread"
    /\ loop' = [loop EXCEPT !.running = 0, !.tasks[t].at = "thread"]
    /\ UNCHANGED <<fs, env, coll, call>>

\* the worker thread completes the work of task t, which is ready again
ThreadDone(t) ==
    /\ loop.tasks[t].at = "thread"
    /\ \E w \in {Work(t)} :
          /\ fs' = w.fs
          /\ loop' = [loop EXCEPT !.tasks[t] = After(t, w, "ready")]
    /\ UNCHANGED <<env, coll, call>>

\* the running coroutine returns its response
Return(t) ==
    /\ loop.running = t /\ Finished(t)
    /\ loop' = [loop EXCEPT !.running = 0, !.tasks[t].at = "done"]
    /\ UNCHANGED <<fs, env, coll, call>>

NextLoop ==
    \E t \in Tasks :
        \/ \E net \in {Net("error", 0, None, << >>, 0)} \cup
                       {Net("ok", 200, None, BodyFor(t), fail_at) : fail_at \in {0, 2}} :
              Invoke(t, "mcp_download_file", Some(net))
        \/ Invoke(t, "mcp_extract_excel_content", None)
        \/ Run(t)
        \/ StepInline(t)
        \/ Await(t)
        \/ ThreadDone(t)
        \/ Return(t)

SpecLoop == InitLoop /\ [][NextLoop]_vars

\* task t is doing file or network work
InIO(t) ==
    /\ loop.tasks[t].at \in {"loop", "thread"}
    /\ ~Finished(t)
    /\ Step(t).io

\* C18: an invocation in its I/O phase runs in a worker thread and does
\* not hold the loop, so that the loop can run the other invocations.
C18_IOOffTheLoop ==
    \A t \in Tasks :
        InIO(t) => (loop.tasks[t].at = "thread" /\ loop.running # t)

(***************************************************************************)
(* SpecTransfer: one mcp_download_file call on a DownloadCollection whose  *)
(* workspace may already hold the destination f and a file f.tmp, for the  *)
(* output paths that reach the transfer and every answer of the network.   *)
(***************************************************************************)
\* what f and f.tmp hold before the call, when they exist
Old == <<9>>

OldTmp == <<8, 8>>

\* FSM, with f or f.tmp or both in the workspace
Disks ==
    {FSM,
     (Append(WS, "f") :> FileNode(Old)) @@ FSM,
     (Append(WS, "f.tmp") :> FileNode(OldTmp)) @@ FSM,
     (Append(WS, "f") :> FileNode(Old)) @@ (Append(WS, "f.tmp") :> FileNode(OldTmp)) @@ FSM}

TransferInputs ==
    {Url("http", "host")} \X {"f", "d", "", ".", "n/f", "k/f"} \X BOOLEAN
        \X (Nets \cup {DiskFull(Net("ok", 200, None, Body(k), 0), k) : k \in 1..MaxChunks})

InitTransfer ==
    /\ env = None
    /\ call = NoCall
    /\ loop = NoLoop
    /\ \E f \in Disks :
        \E r \in {NewCollection(f, None, "DownloadCollection", Some("/h/w"))} :
          /\ fs = r.fs
          /\ coll = r.coll

Transfer ==
    /\ call.op = "none"
    /\ \E inp \in TransferInputs : DownloadFile(inp[1], inp[2], inp[3], inp[4])

NextTransfer == Transfer

SpecTransfer == InitTransfer /\ [][NextTransfer]_vars

\* the server is reached, and it announces a body larger than
\* max_file_size or delivers one, the connection and the disk holding
TooLarge ==
    /\ call.net # None
    /\ The(call.net).connect = "ok"
    /\ \/ /\ The(call.net).content_length # None
          /\ The(The(call.net).content_length) > The(coll.max_file_size)
       \/ /\ The(call.net).status < 400
          /\ The(call.net).fail_at = 0 /\ The(call.net).full_at = 0
          /\ Len(call.body) > The(coll.max_file_size)

\* the last call reached the transfer
Transferred == call.op = "mcp_download_file" /\ call.raised = "none" /\ call.result # None

\* the temporary file of the last call's destination
TempOf(final) == TempFilePath(The(final)).path

\* C21: a download whose body exceeds max_file_size ends in a failure
\* result; the destination is not created or replaced, no more than
\* max_file_size bytes are written to disk, and the temporary file the call
\* made is gone.
C21_TooLargeFails ==
    (Transferred /\ TooLarge) =>
        /\ ~The(call.result).success /\ ~call.resp.success
        /\ The(call.final) \notin call.changed
        /\ The(call.result).written <= The(coll.max_file_size)
        /\ The(call.result).wrote # {} => TempOf(call.final) \notin DOMAIN fs

\* the excess was found while streaming, after a chunk had been written
C21_Witness ==
    /\ Transferred /\ TooLarge
    /\ The(call.result).error_type = Some("ValueError")
    /\ The(call.result).written > 0
    /\ The(call.result).wrote = {Append(WS, "f.tmp")}
    /\ call.overwrite
    /\ IsFile(fs, Append(WS, "f")) /\ fs[Append(WS, "f")].data = Old

\* C25: every file mcp_download_file creates or writes, the destination
\* and the temporary file, lies inside the workspace.
C25_WritesInsideWorkspace ==
    call.op = "mcp_download_file" =>
        /\ \A p \in call.changed : Inside(p)
        /\ call.result # None => \A p \in The(call.result).wrote : Inside(p)

\* C26: a call with overwrite not set changes or deletes no file that
\* existed before it.
C26_NoOverwriteKeepsFiles ==
    (call.op = "mcp_download_file" /\ ~call.overwrite) => call.lost = {}

\* C27: when a call with overwrite set fails in the transfer, the
\* destination that existed before it is the file it was.
C27_FailedOverwriteKeepsDestination ==
    (Transferred /\ call.overwrite /\ ~The(call.result).success)
        => The(call.final) \notin call.lost

\* the connection broke after the first chunk was written over an
\* existing f, which still holds what it held
C27_Witness ==
    /\ Transferred /\ call.overwrite /\ ~The(call.result).success
    /\ call.path = "f"
    /\ The(call.result).error_type = Some("ConnectionError")
    /\ The(call.result).written > 0
    /\ IsFile(fs, Append(WS, "f")) /\ fs[Append(WS, "f")].data = Old

\* C28: after a failed transfer no temporary file that the call made
\* remains.
C28_NoTempAfterFailure ==
    (Transferred /\ ~The(call.result).success /\ The(call.result).wrote # {})
        => TempOf(call.final) \notin DOMAIN fs

\* C22: XLSXCollection._validate_file_path gives, for every file_path, the
\* outcome and the path that ActionCollection._validate_file_path gives
\* on the same collection.
C22_XLSXValidatesAsBase ==
    (call.op = "_validate_file_path" /\ coll.cls = "XLSXCollection")
        => LET base == ValidateFilePath(fs, coll, call.path)
           IN  /\ call.raised = base.raised
               /\ base.raised = "none" => call.final = Some(base.path.parts)

\* C30: the path _validate_file_path returns lies inside the workspace.
C30_ValidatedInsideWorkspace ==
    (call.op = "_validate_file_path" /\ call.raised = "none")
        => Inside(Resolve(fs, AbsPath(The(call.final))))

(***************************************************************************)
(* get_file_from_source and get_file_from_source_async (utils.py).  The    *)
(* two have the same statements; lib is the HTTP library each uses.        *)
(***************************************************************************)
\* a source text as urlparse splits it
Source(scheme, netloc, path) == [scheme |-> scheme, netloc |-> netloc, path |-> path]

\* is_url
IsUrl(source) == source.scheme # "" /\ source.netloc # ""

\* the base class of the errors of the HTTP library
RequestError(lib) ==
    IF lib = "requests" THEN "requests.RequestException" ELSE "aiohttp.ClientError"

\* one request as the server answers it: the connection fails, or a status
\* comes with a Content-Length header or without and a body in chunks
Answer(error, status, content_length, chunks) ==
    [error |-> error, status |-> status, content_length |-> content_length,
     chunks |-> chunks]

\* the try block of the URL branch: the exception raised in it, or "none"
UrlTry(lib, max_size_bytes, head, get) ==
    IF head.error THEN "ConnectionError"
    ELSE IF head.status >= 400 THEN "HTTPError"
    ELSE IF head.content_length # None /\ The(head.content_length) > max_size_bytes
    THEN "ValueError"
    ELSE IF get.error THEN "ConnectionError"
    ELSE IF get.status >= 400 THEN "HTTPError"
    ELSE IF Len(Flat(get.chunks)) > max_size_bytes THEN "ValueError"
    ELSE "none"

\* the except clauses of the URL branch: what leaves the function for the
\* exception exc raised in the try block
UrlExcept(lib, exc) ==
    IF exc \in {"ConnectionError", "HTTPError"} THEN RequestError(lib) ELSE "OSError"

\* tempfile.NamedTemporaryFile(delete=False, suffix=suffix): a new file in
\* the temporary directory, which is the current directory where no /tmp
\* exists; its random name is written tmp
TempFile(f, suffix, content) ==
    LET path == Append(CWD, "tmp" \o suffix)
        opened == OpenWrite(f, path)
    IN  IF opened.raised # "none" THEN [raised |-> opened.raised, fs |-> f, path |-> path]
        ELSE [raised |-> "none", fs |-> WriteChunk(opened.fs, path, content), path |-> path]

\* the local branch: [raised, value]
LocalFile(f, source, max_size_bytes) ==
    LET file_path == PurePath(source.path)
        parts == (IF file_path.abs THEN << >> ELSE CWD) \o file_path.parts
        ex == PathExists(f, parts)
        real == RealPath(f, << >>, parts)
    IN  IF ex.raised # "none" THEN [raised |-> ex.raised, value |-> None]
        ELSE IF ~ex.value THEN [raised |-> "ValueError", value |-> None]
        ELSE IF f[real].t # "file" THEN [raised |-> "ValueError", value |-> None]
        ELSE IF Len(f[real].data) > max_size_bytes THEN [raised |-> "ValueError", value |-> None]
        ELSE [raised |-> "none", value |-> Some([path |-> parts, content |-> f[real].data])]

\* get_file_from_source(source, max_size_mb) with max_size_bytes the limit
\* it computes: [raised, value, fs]; value holds the path and the content
GetFileFromSource(f, lib, source, max_size_bytes, head, get) ==
    IF IsUrl(source)
    THEN LET exc == UrlTry(lib, max_size_bytes, head, get)
             suffix == PathSuffix(PurePath(source.path))
             temp == TempFile(f, IF suffix = "" THEN ".tmp" ELSE suffix, Flat(get.chunks))
         IN  IF exc # "none" THEN [raised |-> UrlExcept(lib, exc), value |-> None, fs |-> f]
             ELSE IF temp.raised # "none"
             THEN [raised |-> UrlExcept(lib, temp.raised), value |-> None, fs |-> f]
             ELSE [raised |-> "none", fs |-> temp.fs,
                   value |-> Some([path |-> temp.path, content |-> Flat(get.chunks)])]
    ELSE LocalFile(f, source, max_size_bytes) @@ [fs |-> f]

(***************************************************************************)
(* SpecSource: one call of get_file_from_source or of its async twin, for  *)
(* URL and local sources, limits of Limits bytes and every answer of the   *)
(* server to the HEAD and the GET request.                                 *)
(***************************************************************************)
\* FSM with a file of as many bytes as the largest body
FSS == (Append(WS, "big.bin") :> FileNode(Flat(Body(MaxChunks)))) @@ FSM

Sources ==
    {Source("http", "host", "/x.bin"), Source("https", "host", ""),
     Source("", "", "/h/w/b.txt"), Source("", "", "/h/w/big.bin"),
     Source("", "", "/h/w/d"), Source("", "", "/h/w/n"), Source("", "", "d.xls")}

Limits == {1, MaxChunks}

Answers ==
    {Answer(TRUE, 0, None, << >>), Answer(FALSE, 404, None, << >>)} \cup
    {Answer(FALSE, 200, cl, Body(k)) :
        cl \in {None, Some(1), Some(MaxChunks + 1)}, k \in 0..MaxChunks}

InitSource ==
    /\ fs = FSS
    /\ env = None
    /\ coll = NoCollection
    /\ call = NoCall
    /\ loop = NoLoop

\* get_file_from_source(source, max_size_mb), or await of the async one
GetFile ==
    /\ call.op = "none"
    /\ \E lib \in {"requests", "aiohttp"}, source \in Sources, max_size_bytes \in Limits,
          head \in Answers, get \in Answers :
        \E r \in {GetFileFromSource(fs, lib, source, max_size_bytes, head, get)} :
          /\ IsUrl(source) \/ (head = Answer(TRUE, 0, None, << >>) /\ get = head)
          /\ fs' = r.fs
          /\ call' = [NoCall EXCEPT !.op = "get_file_from_source", !.n = 1,
                        !.raised = r.raised, !.value = r.value,
                        !.net = Some([lib |-> lib, source |-> source,
                                      max_size_bytes |-> max_size_bytes,
                                      head |-> head, get |-> get])]
    /\ UNCHANGED <<env, coll, loop>>

NextSource == GetFile

SpecSource == InitSource /\ [][NextSource]_vars

\* the request to the URL itself failed
RequestFailed(given) ==
    /\ IsUrl(given.source)
    /\ \/ given.head.error \/ given.head.status >= 400
       \/ given.get.error \/ given.get.status >= 400

\* the source is larger than the limit: the HEAD answer announces it, the
\* body read is, or the local file is
Exceeds(given) ==
    IF IsUrl(given.source)
    THEN /\ ~given.head.error /\ given.head.status < 400
         /\ \/ /\ given.head.content_length # None
               /\ The(given.head.content_length) > given.max_size_bytes
            \/ /\ ~given.get.error /\ given.get.status < 400
               /\ Len(Flat(given.get.chunks)) > given.max_size_bytes
    ELSE /\ IsFile(fs, PurePath(given.source.path).parts)
         /\ Len(fs[PurePath(given.source.path).parts].data) > given.max_size_bytes

\* C23: get_file_from_source and get_file_from_source_async raise
\* ValueError when the source is larger than the limit, a URL as well as a
\* local file, and the error of the request library only when the request
\* failed.
C23_TooLargeIsValueError ==
    call.op = "get_file_from_source" =>
        /\ Exceeds(The(call.net)) => call.raised = "ValueError"
        /\ call.raised = RequestError(The(call.net).lib) => RequestFailed(The(call.net))

\* the optional field of the last chat_completion request is given
Supplied(field) == The(call.sent).request[field] # None

\* the Authorization header is made of the request's own key, and each
\* optional sampling field is in the payload exactly when it is not None
OwnKeyAndSampling ==
    /\ The(call.sent).headers["Authorization"] = "Bearer " \o The(call.sent).request.api_key
    /\ \A field \in optional_fields :
          field \in DOMAIN The(call.sent).payload <=> Supplied(field)

\* C24, as stated: the request posted carries Authorization = "Bearer " and
\* the api_key of that request; HTTP-Referer is there exactly when site_url
\* is supplied, X-Title exactly when site_name is; each optional sampling
\* field is in the payload exactly when it is not None.
C24_HeadersFollowRequest ==
    call.op = "chat_completion" =>
        /\ OwnKeyAndSampling
        /\ "HTTP-Referer" \in DOMAIN The(call.sent).headers <=> Supplied("site_url")
        /\ "X-Title" \in DOMAIN The(call.sent).headers <=> Supplied("site_name")

\* C24, amended: as C24, with HTTP-Referer and X-Title there exactly when
\* site_url and site_name are supplied and not the empty string, and then
\* holding them.
C24_HeadersFollowNonEmpty ==
    call.op = "chat_completion" =>
        /\ OwnKeyAndSampling
        /\ \A h \in {<<"HTTP-Referer", "site_url">>, <<"X-Title", "site_name">>} :
              IF Supplied(h[2]) /\ The(The(call.sent).request[h[2]]) # ""
              THEN /\ h[1] \in DOMAIN The(call.sent).headers
                   /\ The(call.sent).headers[h[1]] = The(The(call.sent).request[h[2]])
              ELSE h[1] \notin DOMAIN The(call.sent).headers

\* a second request in the same process, with the other key, a site_url,
\* no site_name and max_tokens = 0
C24_Witness ==
    /\ call.op = "chat_completion" /\ call.again
    /\ The(call.sent).request.api_key = "k2"
    /\ The(call.sent).headers["Authorization"] = "Bearer k2"
    /\ The(call.sent).request.site_url = Some("u")
    /\ "HTTP-Referer" \in DOMAIN The(call.sent).headers
    /\ The(call.sent).request.site_name = None
    /\ "X-Title" \notin DOMAIN The(call.sent).headers
    /\ The(call.sent).request.max_tokens = Some(0)
    /\ The(call.sent).payload["max_tokens"] = 0
    /\ "stream" \notin DOMAIN The(call.sent).payload

\* the invocations of mcp_download_file that reported success
Succeeded == {t \in Tasks : loop.tasks[t].ok = Some(TRUE)}

\* task t is past its exists-check and before the end of its move
Committing(t) ==
    /\ loop.tasks[t].op = "mcp_download_file"
    /\ loop.tasks[t].i > 3 /\ ~Finished(t)

\* C29: of the mcp_download_file invocations made on one event loop with
\* the same output path, overwrite not set and no file there at first, at
\* most one reports success, the destination then holds the whole body of
\* that one, and between an invocation's exists-check and its move no
\* other invocation runs.
C29_OneWinner ==
    /\ Cardinality(Succeeded) <= 1
    /\ \A t \in Succeeded :
          /\ IsFile(fs, Append(WS, SharedPath))
          /\ fs[Append(WS, SharedPath)].data = Flat(BodyFor(t))
    /\ \A t \in Tasks : Committing(t) => loop.running = t

\* both invocations are downloads and have returned: the second one
\* succeeded, the first one had lost its connection
C29_Witness ==
    /\ \A t \in {1, 2} :
          loop.tasks[t].op = "mcp_download_file" /\ loop.tasks[t].at = "done"
    /\ Succeeded = {2}
    /\ loop.tasks[1].final = loop.tasks[2].final
    /\ fs[Append(WS, SharedPath)].data = Flat(BodyFor(2))

====
